---- MODULE Spec2Model ----
(***************************************************************************)
(* rotour: the motion compiler (planner.rs), run_path (main.rs) and the    *)
(* ack-gated transmitter (connection.rs).                                  *)
(*                                                                         *)
(* Number representation.  The program computes in f32.  Every angle it    *)
(* handles is a multiple of PI/2 plus rounding noise of about 1e-6, and    *)
(* every comparison is made against a threshold that is EPSILON = 1e-4 or  *)
(* more away from those multiples, so angles are modelled as integers in   *)
(* units of 1e-4 rad (PI = 31416 units, EPSILON = 1 unit).  tw_off and     *)
(* velocity_twoff use the same 1e-4 unit (0.5 = 5000 units).  Times are    *)
(* integers in units of 0.05 s (0.35 s = 7, 0.4 s = 8).                    *)
(***************************************************************************)
EXTENDS Integers, Sequences, FiniteSets, TLC

\* ---------------------------------------------------------------- bounds
MaxLines == 3       \* longest free-form input file, in lines
MaxTokens == 6      \* longest well-formed script of unit moves

\* ------------------------------------------------------------- constants
PI == 31416
EPSILON == 1
CM_PER_SQUARE == 50

\* default_config of read_config, times in units of 0.05 s
default_config ==
  [ticks_per_cm |-> 100, turn_accel_time |-> 8, straight_accel_time |-> 7]

TurnMove == "TurnMove"
Transmit == "Transmit"

\* --------------------------------------------------------------- helpers
Abs(x) == IF x < 0 THEN -x ELSE x

\* f32::round of the quotient n/d (d > 0): nearest integer, halves away
\* from zero
Round(n, d) ==
  IF n >= 0 THEN (2 * n + d) \div (2 * d) ELSE -((2 * (-n) + d) \div (2 * d))

to_lowercase(s) ==
  CASE s = "UP" -> "up"
    [] OTHER -> s

\* ----------------------------------------------------------------- Token
Up(d) == [dir |-> "up", mag |-> d]
Down(d) == [dir |-> "down", mag |-> d]
Left(d) == [dir |-> "left", mag |-> d]
Right(d) == [dir |-> "right", mag |-> d]

target_angle(tok) ==
  CASE tok.dir = "up" -> PI \div 2
    [] tok.dir = "down" -> -(PI \div 2)
    [] tok.dir = "left" -> PI
    [] tok.dir = "right" -> 0

mod_floats(a, b) == a - Round(a, b + 2 * EPSILON) * b

\* the turn plan_token computes for target target_ang at heading angle
Dang(target_ang, angle) ==
  LET d0 == target_ang - angle
      d1 == IF d0 > PI + EPSILON THEN d0 - 2 * PI
            ELSE IF d0 < -PI - EPSILON THEN d0 + 2 * PI
            ELSE d0
      d2 == mod_floats(d1, PI)
  IN IF Abs(d2) < EPSILON THEN 0 ELSE d2

\* plan_token with the distance multiplied by ticks_per_cm alone
plan_token_noscale(tok, angle, config) ==
  LET target_ang == target_angle(tok)
      dang == Dang(target_ang, angle)
      angle2 == angle + dang
      dist == IF Abs(Abs(angle2 - target_ang) - PI) < EPSILON
              THEN -tok.mag ELSE tok.mag
  IN [cmd |-> [command_type |-> TurnMove,
               turn |-> dang,
               ticks |-> dist * config.ticks_per_cm,
               tw_off |-> 0],
      angle |-> angle2]

\* plan_token with the heading left as it was
plan_token_stale(tok, angle, config) ==
  LET target_ang == target_angle(tok)
      dang == Dang(target_ang, angle)
      dist == IF Abs(Abs(angle - target_ang) - PI) < EPSILON
              THEN -tok.mag ELSE tok.mag
  IN [cmd |-> [command_type |-> TurnMove,
               turn |-> dang,
               ticks |-> dist * config.ticks_per_cm * CM_PER_SQUARE,
               tw_off |-> 0],
      angle |-> angle]

\* plan_token: the command and the updated heading
plan_token(tok, angle, config) ==
  LET target_ang == target_angle(tok)
      dang == Dang(target_ang, angle)
      angle2 == angle + dang
      dist == IF Abs(Abs(angle2 - target_ang) - PI) < EPSILON
              THEN -tok.mag ELSE tok.mag
  IN [cmd |-> [command_type |-> TurnMove,
               turn |-> dang,
               ticks |-> dist * config.ticks_per_cm * CM_PER_SQUARE,
               tw_off |-> 0],
      angle |-> angle2]

\* ------------------------------------------------------------ input file
\* A line of the input file after split_whitespace: the number of fields,
\* the first field, and the second field as text that either parses as a
\* number (num, with value v) or does not.
Line(nf, kw, num, v) == [nf |-> nf, kw |-> kw, num |-> num, v |-> v]

Directions == {"up", "down", "left", "right"}
Mags == {1, 2}

\* the acceleration overhead the budgeter charges a plan of n commands with
\* t non-zero turns
Overhead(n, t, config) ==
  2 * config.straight_accel_time * n + 2 * config.turn_accel_time * t

\* time directives: none effective (0), and the overheads of one- and
\* two-command plans, exactly and one unit short
TimeValues ==
  {0} \cup UNION { {Overhead(n, t, default_config) - e : t \in 0..(n - 1), e \in 0..1} :
                    n \in 1..2 }

MoveLines == {Line(2, d, TRUE, m) : d \in Directions, m \in Mags}
TimeLines == {Line(2, "time", TRUE, t) : t \in TimeValues}
OtherLines ==
  { Line(2, "UP", TRUE, 1),        \* keyword in upper case
    Line(2, "#", TRUE, 1),         \* comment
    Line(1, "up", FALSE, 0),       \* fewer than two fields
    Line(2, "diagonal", TRUE, 5),  \* unknown keyword
    Line(2, "up", FALSE, 0) }      \* magnitude that is not a number
LineSet == MoveLines \cup TimeLines \cup OtherLines

SeqsUpTo(S, n) == UNION {[1..k -> S] : k \in 0..n}

\* free-form files of any lines
ShortFiles == SeqsUpTo(LineSet, MaxLines)

\* well-formed scripts: a generous time directive, then unit moves
LongTime == Overhead(MaxTokens, MaxTokens, default_config)
LongFiles ==
  { <<Line(2, "time", TRUE, LongTime)>> \o [k \in 1..Len(ds) |-> Line(2, ds[k], TRUE, 1)] :
      ds \in SeqsUpTo(Directions, MaxTokens) }

\* the script right 10, up 10 with time 5 (5 s = 100 units of 0.05 s)
ScenarioFile ==
  <<Line(2, "right", TRUE, 10), Line(2, "up", TRUE, 10),
    Line(2, "time", TRUE, 100)>>

\* ----------------------------------------------------------------- parse
\* one iteration of the reader.lines() loop on parse state st
ParseLine(st, line) ==
  IF st.err # "none" THEN st
  ELSE IF line.nf < 2 \/ line.kw = "#" THEN st
  ELSE IF ~line.num THEN [st EXCEPT !.err = "parse"]
  ELSE LET kw == to_lowercase(line.kw) IN
       CASE kw = "up" -> [st EXCEPT !.tokens = Append(@, Up(line.v))]
         [] kw = "down" -> [st EXCEPT !.tokens = Append(@, Down(line.v))]
         [] kw = "left" -> [st EXCEPT !.tokens = Append(@, Left(line.v))]
         [] kw = "right" -> [st EXCEPT !.tokens = Append(@, Right(line.v))]
         [] kw = "time" -> [st EXCEPT !.time = line.v]
         [] OTHER -> [st EXCEPT !.err = "parse"]

RECURSIVE ParseFrom(_, _, _)
ParseFrom(lines, i, st) ==
  IF i > Len(lines) THEN st
  ELSE ParseFrom(lines, i + 1, ParseLine(st, lines[i]))

\* the parse section of plan: tokens and time, or the error it returns
ParseFile(lines) ==
  LET st == ParseFrom(lines, 1, [tokens |-> <<>>, time |-> 0, err |-> "none"])
  IN IF st.err = "none" /\ st.time = 0 THEN [st EXCEPT !.err = "notime"] ELSE st

\* ------------------------------------------------------------------ plan
\* "Calculate final position": xfin, yfin in grid squares
RECURSIVE FinalPosition(_, _)
FinalPosition(toks, k) ==
  IF k = 0 THEN [xfin |-> 0, yfin |-> 0]
  ELSE LET p == FinalPosition(toks, k - 1)
           tok == toks[k]
       IN CASE tok.dir = "up" -> [p EXCEPT !.yfin = @ + tok.mag]
            [] tok.dir = "down" -> [p EXCEPT !.yfin = @ - tok.mag]
            [] tok.dir = "left" -> [p EXCEPT !.xfin = @ - tok.mag]
            [] tok.dir = "right" -> [p EXCEPT !.xfin = @ + tok.mag]

\* the emission loop: plan_token on tokens[j..], pushing each command
RECURSIVE EmitFrom(_, _, _, _, _)
EmitFrom(toks, j, angle, cmds, config) ==
  IF j > Len(toks) THEN [commands |-> cmds, angle |-> angle]
  ELSE LET res == plan_token(toks[j], angle, config)
       IN EmitFrom(toks, j + 1, res.angle, Append(cmds, res.cmd), config)

\* index of the first command with a non-zero turn, 0 if there is none
FirstTurn(cmds, i) ==
  LET turning == {k \in 1..i : Abs(cmds[k].turn) > EPSILON}
  IN IF turning = {} THEN 0
     ELSE CHOOSE k \in turning : \A j \in turning : k <= j

\* index of the last command with a non-zero turn, 0 if there is none
RECURSIVE LastTurn(_, _)
LastTurn(cmds, i) ==
  IF i = 0 THEN 0
  ELSE IF Abs(cmds[i].turn) > EPSILON THEN i
  ELSE LastTurn(cmds, i - 1)

\* the patched turn, brought back towards range by one step of 2 PI
PatchTurn(turn, ediff) ==
  LET t == turn + ediff
  IN IF t > PI THEN t - 2 * PI
     ELSE IF t < -PI THEN t + 2 * PI
     ELSE t

\* the replay pushing the result for token i as well
Replay_push(toks, cmds, i, angle, config) ==
  EmitFrom(toks, i, angle, cmds, config)

\* the replay after the patch: tokens[i..] from heading angle; the first
\* result only refreshes ticks and tw_off of command i
Replay(toks, cmds, i, angle, config) ==
  LET first == plan_token(toks[i], angle, config)
      head == [cmds EXCEPT ![i].ticks = first.cmd.ticks,
                           ![i].tw_off = first.cmd.tw_off]
  IN EmitFrom(toks, i + 1, first.angle, head, config)

\* with no turn to backtrack to, the last command is patched instead
FixEndingAngle_patchlast(toks, cmds, angle, config) ==
  LET last_target == target_angle(toks[Len(toks)])
      ediff == last_target - angle
      found == LastTurn(cmds, Len(cmds))
      i == IF found = 0 THEN Len(cmds) ELSE found
  IN IF Abs(ediff) > EPSILON
     THEN LET patched == [cmds EXCEPT ![i].turn = PatchTurn(@, ediff)]
          IN Replay(toks, SubSeq(patched, 1, i), i, last_target, config)
     ELSE [commands |-> cmds, angle |-> angle]

\* the replay restarted from the heading emission ended with
FixEndingAngle_keepangle(toks, cmds, angle, config) ==
  LET last_target == target_angle(toks[Len(toks)])
      ediff == last_target - angle
      i == LastTurn(cmds, Len(cmds))
  IN IF Abs(ediff) > EPSILON /\ i > 0
     THEN LET patched == [cmds EXCEPT ![i].turn = PatchTurn(@, ediff)]
          IN Replay(toks, SubSeq(patched, 1, i), i, angle, config)
     ELSE [commands |-> cmds, angle |-> angle]

\* "Fix ending angle": commands and heading after the correction
FixEndingAngle(toks, cmds, angle, config) ==
  LET last_target == target_angle(toks[Len(toks)])
      ediff == last_target - angle
      i == LastTurn(cmds, Len(cmds))
  IN IF Abs(ediff) > EPSILON /\ i > 0
     THEN LET patched == [cmds EXCEPT ![i].turn = PatchTurn(@, ediff)]
          IN Replay(toks, SubSeq(patched, 1, i), i, last_target, config)
     ELSE [commands |-> cmds, angle |-> angle]

\* the same iteration with only the turning command's offset reduced
BudgetStep_onesided(st, i, config) ==
  LET c == st.commands
      n == Len(c)
      cur == c[i + 1]
      nxt == c[i + 2]
      turning == Abs(nxt.turn) > EPSILON
      lastpair == (i = n - 2)
      velocity == st.velocity + Abs(cur.ticks)
                  + (IF lastpair THEN Abs(nxt.ticks) ELSE 0)
      velocity_twoff == st.velocity_twoff + Abs(cur.tw_off)
                        + (IF turning THEN Abs(nxt.turn) ELSE 0)
                        + (IF lastpair THEN Abs(nxt.tw_off) ELSE 0)
      vtime == st.vtime - 2 * config.straight_accel_time
               - (IF turning THEN 2 * config.turn_accel_time ELSE 0)
               - (IF lastpair THEN 2 * config.straight_accel_time ELSE 0)
      cmds == IF Abs(nxt.turn) < EPSILON THEN c
              ELSE [c EXCEPT ![i + 2].tw_off = @ - 5000]
  IN [commands |-> cmds, velocity |-> velocity,
      velocity_twoff |-> velocity_twoff, vtime |-> vtime]

\* one iteration i (0-based, as in the source) of the tw_off/velocity loop
BudgetStep(st, i, config) ==
  LET c == st.commands
      n == Len(c)
      cur == c[i + 1]
      nxt == c[i + 2]
      turning == Abs(nxt.turn) > EPSILON
      lastpair == (i = n - 2)
      velocity == st.velocity + Abs(cur.ticks)
                  + (IF lastpair THEN Abs(nxt.ticks) ELSE 0)
      velocity_twoff == st.velocity_twoff + Abs(cur.tw_off)
                        + (IF turning THEN Abs(nxt.turn) ELSE 0)
                        + (IF lastpair THEN Abs(nxt.tw_off) ELSE 0)
      vtime == st.vtime - 2 * config.straight_accel_time
               - (IF turning THEN 2 * config.turn_accel_time ELSE 0)
               - (IF lastpair THEN 2 * config.straight_accel_time ELSE 0)
      cmds == IF Abs(nxt.turn) < EPSILON THEN c
              ELSE [c EXCEPT ![i + 1].tw_off = @ - 5000,
                             ![i + 2].tw_off = @ - 5000]
  IN [commands |-> cmds, velocity |-> velocity,
      velocity_twoff |-> velocity_twoff, vtime |-> vtime]

RECURSIVE BudgetFrom(_, _, _)
BudgetFrom(st, i, config) ==
  IF i >= Len(st.commands) - 1 THEN st
  ELSE BudgetFrom(BudgetStep(st, i, config), i + 1, config)

\* "Calculate tw_off, velocity": the loop over 0..commands.len()-1
Budget(cmds, t, config) ==
  BudgetFrom([commands |-> cmds, velocity |-> 0, velocity_twoff |-> 0,
              vtime |-> t], 0, config)

\* -------------------------------------------------------------- run_path
\* `planner::plan(path, config)?`: transmit is entered only on Ok
run_path_next_always(res) == "connect"

run_path_next(res) == IF res = "ok" THEN "connect" ELSE "failed"

\* ----------------------------------------------------------------- state
VARIABLES
  file,      \* the lines of the input file
  pc,        \* position of the process in run_path / plan / transmit
  tokens,    \* plan: parsed instructions
  time,      \* plan: the time directive
  angle,     \* plan: the tracked heading
  commands,  \* plan: the command list
  emitted,   \* commands and heading as the emission loop left them
  config,    \* the ConfigCommand summary fields of the PlanningResult
  planres,   \* what plan returned: "none" (not yet), "ok", "err"
  error,     \* the error reported, "none" if none
  log,       \* serial channel history: writes of records and reads of acks
  rx,        \* ack bytes waiting in the port's input buffer
  acked,     \* number of records the device has acknowledged
  idx        \* transmit: 1-based index of the move being delivered

vars == <<file, pc, tokens, time, angle, commands, emitted, config, planres,
          error, log, rx, acked, idx>>

NoConfig == [velocity |-> 0, velocity_twoff |-> 0, time |-> 0, vtime |-> 0]
NoEmission == [commands |-> <<>>, angle |-> 0]

Init ==
  /\ file \in ShortFiles \cup LongFiles \cup {ScenarioFile}
  /\ pc = "parse"
  /\ tokens = <<>>
  /\ time = 0
  /\ angle = 0
  /\ commands = <<>>
  /\ emitted = NoEmission
  /\ config = NoConfig
  /\ planres = "none"
  /\ error = "none"
  /\ log = <<>>
  /\ rx = 0
  /\ acked = 0
  /\ idx = 0

chan == <<log, rx, acked, idx>>

\* ------------------------------------------------------------ plan steps
\* plan, lines 68-97: read the file
Parse ==
  /\ pc = "parse"
  /\ LET st == ParseFile(file) IN
       IF st.err # "none"
       THEN /\ planres' = "err"
            /\ error' = st.err
            /\ pc' = run_path_next("err")
            /\ UNCHANGED <<tokens, time>>
       ELSE /\ tokens' = st.tokens
            /\ time' = st.time
            /\ pc' = "emit"
            /\ UNCHANGED <<planres, error>>
  /\ UNCHANGED <<file, angle, commands, emitted, config, chan>>

\* plan, lines 122-125: tokens[0] panics on an empty script
Emit ==
  /\ pc = "emit"
  /\ IF tokens = <<>>
     THEN /\ pc' = "panicked"
          /\ UNCHANGED <<angle, commands, emitted>>
     ELSE LET res == EmitFrom(tokens, 1, target_angle(tokens[1]), <<>>,
                              default_config) IN
          /\ commands' = res.commands
          /\ angle' = res.angle
          /\ emitted' = res
          /\ pc' = "fix"
  /\ UNCHANGED <<file, tokens, time, config, planres, error, chan>>

\* plan, lines 127-156
Fix ==
  /\ pc = "fix"
  /\ LET res == FixEndingAngle(tokens, commands, angle, default_config) IN
       /\ commands' = res.commands
       /\ angle' = res.angle
  /\ pc' = "budget"
  /\ UNCHANGED <<file, tokens, time, emitted, config, planres, error, chan>>

\* plan, lines 158-221
BudgetAndReturn ==
  /\ pc = "budget"
  /\ LET b == Budget(commands, time, default_config) IN
       /\ commands' = b.commands
       /\ IF b.vtime < 0
          THEN /\ planres' = "err"
               /\ error' = "budget"
               /\ pc' = run_path_next("err")
               /\ UNCHANGED config
          ELSE /\ planres' = "ok"
               /\ config' = [velocity |-> b.velocity,
                             velocity_twoff |-> b.velocity_twoff,
                             time |-> time, vtime |-> b.vtime]
               /\ pc' = run_path_next("ok")
               /\ UNCHANGED error
  /\ UNCHANGED <<file, tokens, time, angle, emitted, chan>>

\* -------------------------------------------------------- transmit steps
WriteEv(rec) == [ev |-> "write", rec |-> rec]
AckEv == [ev |-> "ack", rec |-> [kind |-> "ack"]]

ConfigRecord(cfg) == [kind |-> "ConfigCommand", config |-> cfg]
CommandRecord(cmd) == [kind |-> "Command", cmd |-> cmd]

\* connect() and port.clear(Input); no matching device is an error
Connect ==
  /\ pc = "connect"
  /\ \/ /\ rx' = 0
        /\ pc' = "write_config"
        /\ UNCHANGED error
     \/ /\ error' = "nodevice"
        /\ pc' = "failed"
        /\ UNCHANGED rx
  /\ UNCHANGED <<file, tokens, time, angle, commands, emitted, config,
                 planres, log, acked, idx>>

\* write_all + flush of the ConfigCommand record
WriteConfig ==
  /\ pc = "write_config"
  /\ log' = Append(log, WriteEv(ConfigRecord(config)))
  /\ pc' = "ack_config"
  /\ UNCHANGED <<file, tokens, time, angle, commands, emitted, config,
                 planres, error, rx, acked, idx>>

\* the config ack not waited for: the header follows the config at once
ReadAckConfig_skip ==
  /\ pc = "ack_config"
  /\ pc' = "send_header"
  /\ UNCHANGED <<file, tokens, time, angle, commands, emitted, config,
                 planres, error, log, rx, acked, idx>>

\* read_exact of one byte after the config record
ReadAckConfig ==
  /\ pc = "ack_config"
  /\ rx > 0
  /\ rx' = rx - 1
  /\ log' = Append(log, AckEv)
  /\ pc' = "send_header"
  /\ UNCHANGED <<file, tokens, time, angle, commands, emitted, config,
                 planres, error, acked, idx>>

\* send_command of the Transmit header, ticks = moves.len()
SendHeader ==
  /\ pc = "send_header"
  /\ log' = Append(log, WriteEv(CommandRecord(
               [command_type |-> Transmit, turn |-> 0,
                ticks |-> Len(commands), tw_off |-> 0])))
  /\ idx' = 1
  /\ pc' = IF Len(commands) = 0 THEN "done" ELSE "ack_move"
  /\ UNCHANGED <<file, tokens, time, angle, commands, emitted, config,
                 planres, error, rx, acked>>

\* the read without the read: the loop goes on to send at once
ReadAckMove_skip ==
  /\ pc = "ack_move"
  /\ pc' = "send_move"
  /\ UNCHANGED <<file, tokens, time, angle, commands, emitted, config,
                 planres, error, log, rx, acked, idx>>

\* for m in moves: read_exact of one byte
ReadAckMove ==
  /\ pc = "ack_move"
  /\ rx > 0
  /\ rx' = rx - 1
  /\ log' = Append(log, AckEv)
  /\ pc' = "send_move"
  /\ UNCHANGED <<file, tokens, time, angle, commands, emitted, config,
                 planres, error, acked, idx>>

\* every iteration sends the first move again
SendMove_first ==
  /\ pc = "send_move"
  /\ log' = Append(log, WriteEv(CommandRecord(commands[1])))
  /\ idx' = idx + 1
  /\ pc' = IF idx = Len(commands) THEN "done" ELSE "ack_move"
  /\ UNCHANGED <<file, tokens, time, angle, commands, emitted, config,
                 planres, error, rx, acked>>

\* for m in moves: send_command(m)
SendMove ==
  /\ pc = "send_move"
  /\ log' = Append(log, WriteEv(CommandRecord(commands[idx])))
  /\ idx' = idx + 1
  /\ pc' = IF idx = Len(commands) THEN "done" ELSE "ack_move"
  /\ UNCHANGED <<file, tokens, time, angle, commands, emitted, config,
                 planres, error, rx, acked>>

\* write_all or flush returns an error: `?` returns it, nothing is retried
WriteFails ==
  /\ pc \in {"write_config", "send_header", "send_move"}
  /\ error' = "io"
  /\ pc' = "failed"
  /\ UNCHANGED <<file, tokens, time, angle, commands, emitted, config,
                 planres, log, rx, acked, idx>>

\* read_exact fails (30 s timeout with no byte): expect() panics
ReadFails ==
  /\ pc \in {"ack_config", "ack_move"}
  /\ rx = 0
  /\ pc' = "panicked"
  /\ UNCHANGED <<file, tokens, time, angle, commands, emitted, config,
                 planres, error, log, rx, acked, idx>>

Writes == SelectSeq(log, LAMBDA e : e.ev = "write")

\* the device acknowledges a record it has received with one byte
DeviceAck ==
  /\ pc \in {"ack_config", "ack_move"}
  /\ acked < Len(Writes)
  /\ acked' = acked + 1
  /\ rx' = rx + 1
  /\ UNCHANGED <<file, pc, tokens, time, angle, commands, emitted, config,
                 planres, error, log, idx>>

Next ==
  \/ Parse
  \/ Emit
  \/ Fix
  \/ BudgetAndReturn
  \/ Connect
  \/ WriteConfig
  \/ ReadAckConfig
  \/ SendHeader
  \/ ReadAckMove
  \/ SendMove
  \/ WriteFails
  \/ ReadFails
  \/ DeviceAck

Spec == Init /\ [][Next]_vars

\* ================================================================ claims
RECURSIVE SumTurns(_, _)
SumTurns(cmds, k) == IF k = 0 THEN 0 ELSE SumTurns(cmds, k - 1) + cmds[k].turn

RECURSIVE SumAbsTicks(_, _)
SumAbsTicks(cmds, k) ==
  IF k = 0 THEN 0 ELSE SumAbsTicks(cmds, k - 1) + Abs(cmds[k].ticks)

HasTurn(cmds) == \E k \in 1..Len(cmds) : Abs(cmds[k].turn) > EPSILON
NumTurns(cmds) == Cardinality({k \in 1..Len(cmds) : Abs(cmds[k].turn) > EPSILON})

\* the emission loop has run / the correction has run / the budgeter has run
Emitted == Len(emitted.commands) > 0
FixDone == Emitted /\ pc # "fix"
BudgetDone == FixDone /\ pc # "budget"

LastTarget == target_angle(tokens[Len(tokens)])

\* heading of the emission loop before and after its k-th step
HeadingAfter(k) == target_angle(tokens[1]) + SumTurns(emitted.commands, k)
HeadingBefore(k) == HeadingAfter(k - 1)

\* the ticks of instruction k driven forward
ForwardTicks(k) == tokens[k].mag * default_config.ticks_per_cm * CM_PER_SQUARE

\* angle a modulo a full turn, in 0..2 PI - 1
Mod2Pi(a) == a % (2 * PI)

\* ---- C1 ---------------------------------------------------------------
\* C1 as stated: for any non-empty instruction sequence, the heading plan
\* tracks after emission and the end-heading correction equals the target
\* angle of the last instruction, within epsilon.
C1_FinalHeadingAlways ==
  FixDone => Abs(angle - LastTarget) <= EPSILON

\* C1 amended: the same, for the sequences whose emitted commands include a
\* non-zero turn or whose emitted heading already equals the last target.
C1_FinalHeading ==
  (FixDone /\ (HasTurn(emitted.commands)
               \/ Abs(emitted.angle - LastTarget) <= EPSILON))
    => Abs(angle - LastTarget) <= EPSILON

\* the correction fired and brought the heading onto the last target
C1_Witness ==
  /\ FixDone
  /\ HasTurn(emitted.commands)
  /\ Abs(emitted.angle - LastTarget) > EPSILON
  /\ angle = LastTarget

\* ---- C2 ---------------------------------------------------------------
\* C2: for every instruction processed by plan_token, the distance is
\* negated exactly when the heading after the turn is anti-parallel to the
\* instruction's target ((heading - target) modulo 2 PI is PI), and keeps
\* the instruction's sign otherwise, whatever the accumulated heading.
C2_ReverseIffAntiParallel ==
  Emitted =>
    \A k \in 1..Len(tokens) :
      LET anti == Mod2Pi(HeadingAfter(k) - target_angle(tokens[k])) = PI
      IN emitted.commands[k].ticks =
           (IF anti THEN -ForwardTicks(k) ELSE ForwardTicks(k))

\* ---- C3 ---------------------------------------------------------------
\* C3: every command of the PlanningResult plan returns has a turn of
\* magnitude at most PI, the turn patched by the correction included.
C3_TurnsWithinPi ==
  planres = "ok" => \A k \in 1..Len(commands) : Abs(commands[k].turn) <= PI

\* ---- C4 ---------------------------------------------------------------
IsCommandWrite(e) == e.ev = "write" /\ e.rec.kind = "Command"
IsAck(e) == e.ev = "ack"

\* C4: between the writes of any two Command records (the Transmit header
\* and the motion commands) the transmitter has read an ack byte, so at
\* most one written record is unacknowledged at any time.
C4_OneOutstanding ==
  /\ \A i, j \in 1..Len(log) :
       (i < j /\ IsCommandWrite(log[i]) /\ IsCommandWrite(log[j]))
         => \E a \in (i + 1)..(j - 1) : IsAck(log[a])
  /\ Len(Writes) - Len(SelectSeq(log, IsAck)) <= 1

\* a transmission of at least two motion commands ran to its end
C4_Witness ==
  pc = "done" /\ Len(commands) >= 2 /\ Len(Writes) = Len(commands) + 2

\* ---- C5 ---------------------------------------------------------------
TransmitPcs ==
  {"connect", "write_config", "ack_config", "send_header", "ack_move",
   "send_move", "done"}

\* C5: nothing is written to the serial channel, and transmit is not
\* entered, unless plan returned a PlanningResult; when plan fails (parse
\* error, missing time, negative remaining time) run_path returns the error.
C5_NoWriteBeforePlan ==
  /\ (Len(log) > 0 \/ pc \in TransmitPcs) => planres = "ok"
  /\ planres = "err" =>
       (pc = "failed" /\ log = <<>> /\ error \in {"parse", "notime", "budget"})

\* plan ran through to the budget check and failed there
C5_Witness ==
  planres = "err" /\ error = "budget" /\ pc = "failed" /\ Len(commands) >= 2

\* ---- C6 ---------------------------------------------------------------
\* C6: for every successfully planned script, vtime in the ConfigCommand is
\* time - 2 straight_accel_time N - 2 turn_accel_time T, N the number of
\* commands (any N >= 1) and T the number of commands with a non-zero turn.
C6_RemainingTime ==
  planres = "ok" =>
    config.vtime =
      time - Overhead(Len(commands), NumTurns(commands), default_config)

\* ---- C7 ---------------------------------------------------------------
\* C7: plan accepts a script whose overhead equals the time, and fails with
\* the time-budget error when the overhead exceeds it, for any length >= 1.
C7_BudgetBoundary ==
  BudgetDone =>
    LET ov == Overhead(Len(commands), NumTurns(commands), default_config)
    IN /\ ov = time => planres = "ok"
       /\ ov > time => (planres = "err" /\ error = "budget")

\* ---- C8 ---------------------------------------------------------------
\* C8: for every successfully planned script, the velocity field is the sum
\* of |ticks| over all commands of the final plan, for any length >= 1.
C8_VelocityIsTickSum ==
  planres = "ok" => config.velocity = SumAbsTicks(commands, Len(commands))

\* ---- C9 ---------------------------------------------------------------
\* C9: before the correction every emitted turn has magnitude at most PI/2;
\* a target 180 degrees from the current heading gives turn 0 and a negated
\* distance; a target along the current heading gives turn 0 and the
\* distance unchanged.
C9_EmittedTurns ==
  Emitted =>
    \A k \in 1..Len(tokens) :
      LET d == Mod2Pi(target_angle(tokens[k]) - HeadingBefore(k))
          c == emitted.commands[k]
      IN /\ Abs(c.turn) <= PI \div 2
         /\ d = PI => (c.turn = 0 /\ c.ticks = -ForwardTicks(k))
         /\ d = 0 => (c.turn = 0 /\ c.ticks = ForwardTicks(k))

\* ---- C10 --------------------------------------------------------------
\* change of direction from instruction k-1 to k, modulo a full turn
Change(k) == Mod2Pi(target_angle(tokens[k]) - target_angle(tokens[k - 1]))

\* C10: in a script where every instruction's direction differs from the
\* previous one by exactly 90 degrees, every command after the first turns
\* by +PI/2 for a counter-clockwise change and by -PI/2 for a clockwise one.
C10_QuarterTurns ==
  (planres = "ok"
   /\ \A k \in 2..Len(tokens) : Change(k) \in {PI \div 2, 3 * (PI \div 2)})
    => \A k \in 2..Len(commands) :
         LET want == IF Change(k) = PI \div 2 THEN PI \div 2 ELSE -(PI \div 2)
         IN Abs(commands[k].turn - want) <= EPSILON

\* ---- C11 --------------------------------------------------------------
\* the Command records written so far, in order
CommandWrites == SelectSeq(log, IsCommandWrite)

\* C11: in a completed transmit the first Command record written is the
\* Transmit header with ticks equal to the number of motion commands, and
\* it is followed by exactly that many motion records, the planner's
\* commands in their order, none skipped, duplicated or reordered.
C11_HeaderThenMovesInOrder ==
  pc = "done" =>
    /\ Len(CommandWrites) = Len(commands) + 1
    /\ CommandWrites[1].rec.cmd.command_type = Transmit
    /\ CommandWrites[1].rec.cmd.ticks = Len(commands)
    /\ \A k \in 1..Len(commands) : CommandWrites[k + 1].rec.cmd = commands[k]

\* a transmit of three commands that are not all alike ran to its end
C11_Witness ==
  /\ pc = "done"
  /\ Len(commands) = 3
  /\ commands[1] # commands[2]
  /\ commands[2] # commands[3]

\* ---- C12 --------------------------------------------------------------
\* C12: the ConfigCommand record is written before any Command record; the
\* Transmit header is written only after exactly one ack byte was read
\* after the config write; and once that read or any write has failed no
\* further record is written.
C12_ConfigAckHeader ==
  /\ [](/\ (Len(log) >= 1 =>
              (log[1].ev = "write" /\ log[1].rec.kind = "ConfigCommand"))
        /\ (Len(log) >= 2 => IsAck(log[2]))
        /\ (Len(log) >= 3 =>
              (IsCommandWrite(log[3])
               /\ log[3].rec.cmd.command_type = Transmit))
        /\ \A i \in 2..Len(log) : log[i].rec.kind # "ConfigCommand")
  /\ [][(pc \in {"failed", "panicked"}) => (log' = log)]_vars

\* a write failed after the config record was acknowledged
C12_Witness ==
  pc = "failed" /\ error = "io" /\ Len(log) >= 3

\* ---- C13 --------------------------------------------------------------
Turning(cmds, k) == k >= 1 /\ k <= Len(cmds) /\ Abs(cmds[k].turn) > EPSILON

\* C13: in the final plan each command's tw_off is -0.5 times the number of
\* turn transitions it borders: one if the command itself has a non-zero
\* turn and a predecessor, one more if the next command has a non-zero
\* turn, and 0 if it borders none.
C13_TwOffPerTransition ==
  planres = "ok" =>
    \A k \in 1..Len(commands) :
      commands[k].tw_off =
        -5000 * ((IF k > 1 /\ Turning(commands, k) THEN 1 ELSE 0)
                 + (IF Turning(commands, k + 1) THEN 1 ELSE 0))

\* a plan with a command between two turns, one bordering one turn and one
\* bordering none
C13_Witness ==
  /\ planres = "ok"
  /\ \E k \in 1..Len(commands) : commands[k].tw_off = -10000
  /\ \E k \in 1..Len(commands) : commands[k].tw_off = -5000
  /\ \E k \in 1..Len(commands) : commands[k].tw_off = 0

\* ---- C14 --------------------------------------------------------------
RECURSIVE SumAbsTwOff(_, _)
SumAbsTwOff(cmds, k) ==
  IF k = 0 THEN 0 ELSE SumAbsTwOff(cmds, k - 1) + Abs(cmds[k].tw_off)

RECURSIVE SumAbsTurns(_, _)
SumAbsTurns(cmds, k) ==
  IF k = 0 THEN 0
  ELSE SumAbsTurns(cmds, k - 1)
       + (IF Abs(cmds[k].turn) > EPSILON THEN Abs(cmds[k].turn) ELSE 0)

\* C14: for every successfully planned script, velocity_twoff is the sum
\* over all commands of |final tw_off| plus the sum of the absolute values
\* of all non-zero turns of the plan.
C14_VelocityTwOff ==
  planres = "ok" =>
    config.velocity_twoff =
      SumAbsTwOff(commands, Len(commands)) + SumAbsTurns(commands, Len(commands))

\* ---- C15 --------------------------------------------------------------
\* C15 as stated: for right 10, up 10 with time 5, plan returns exactly two
\* commands, the first with turn 0 and distance 10 x ticks_per_cm, the
\* second with turn +PI/2 and distance 10 x ticks_per_cm, and the final
\* heading is +PI/2.
C15_ScenarioUnscaled ==
  (file = ScenarioFile /\ BudgetDone) =>
    /\ planres = "ok"
    /\ Len(commands) = 2
    /\ commands[1].turn = 0
    /\ commands[1].ticks = 10 * default_config.ticks_per_cm
    /\ commands[2].turn = PI \div 2
    /\ commands[2].ticks = 10 * default_config.ticks_per_cm
    /\ angle = PI \div 2

\* C15 amended: the same, each distance being 10 x ticks_per_cm x
\* CM_PER_SQUARE ticks.
C15_Scenario ==
  (file = ScenarioFile /\ BudgetDone) =>
    /\ planres = "ok"
    /\ Len(commands) = 2
    /\ commands[1].turn = 0
    /\ commands[1].ticks = 10 * default_config.ticks_per_cm * CM_PER_SQUARE
    /\ commands[2].turn = PI \div 2
    /\ commands[2].ticks = 10 * default_config.ticks_per_cm * CM_PER_SQUARE
    /\ angle = PI \div 2

\* plan has returned for the scenario script
C15_Witness == file = ScenarioFile /\ BudgetDone /\ planres = "ok"

\* ---- C16 --------------------------------------------------------------
\* C16: the tracked heading after the last command is congruent modulo PI
\* to the target angle of the last instruction, and after every plan_token
\* step the heading is congruent modulo PI to that step's target.
C16_HeadingParallel ==
  /\ Emitted =>
       /\ \A k \in 1..Len(tokens) :
            (HeadingAfter(k) - target_angle(tokens[k])) % PI = 0
       /\ (emitted.angle - LastTarget) % PI = 0
       /\ emitted.angle = HeadingAfter(Len(tokens))
  /\ FixDone => (angle - LastTarget) % PI = 0

\* emission ended anti-parallel to the last target after a turn
C16_Witness ==
  /\ FixDone
  /\ HasTurn(emitted.commands)
  /\ Abs(emitted.angle - LastTarget) = PI

\* ---- C17 --------------------------------------------------------------
\* emission ended off the last target with no turn to backtrack to
NoTurnToPatch ==
  /\ FixDone
  /\ ~HasTurn(emitted.commands)
  /\ Abs(emitted.angle - LastTarget) > EPSILON

SameTurnsAndTicks ==
  /\ Len(commands) = Len(emitted.commands)
  /\ \A k \in 1..Len(commands) :
       /\ commands[k].turn = emitted.commands[k].turn
       /\ commands[k].ticks = emitted.commands[k].ticks

\* C17 as stated: when the final heading differs from the last target and
\* no command has a non-zero turn, the correction changes nothing, every
\* command keeps the turn and ticks of emission, and plan returns a
\* successful PlanningResult without any error.
C17_UncorrectedAlwaysOk ==
  NoTurnToPatch =>
    /\ SameTurnsAndTicks
    /\ BudgetDone => planres = "ok"

\* C17 amended: in that case the correction changes nothing, every command
\* keeps the turn and ticks of emission and the heading stays as emitted;
\* plan returns a successful PlanningResult exactly when the time covers
\* the acceleration overhead, and fails with the time-budget error (no
\* other) when it does not.
C17_Uncorrected ==
  NoTurnToPatch =>
    /\ SameTurnsAndTicks
    /\ angle = emitted.angle
    /\ BudgetDone =>
         IF time >= Overhead(Len(commands), 0, default_config)
         THEN planres = "ok"
         ELSE planres = "err" /\ error = "budget"

\* an uncorrectable script of commands of different lengths was planned
C17_Witness ==
  /\ NoTurnToPatch
  /\ planres = "ok"
  /\ commands[1].ticks = 5000
  /\ commands[2].ticks = -10000

\* ---- C18 --------------------------------------------------------------
\* the correction fired: emission ended off the last target with a turn
CorrectionFired ==
  /\ FixDone
  /\ HasTurn(emitted.commands)
  /\ Abs(emitted.angle - LastTarget) > EPSILON

\* the command the correction patched: the last emitted one that turns
PatchedIndex ==
  CHOOSE i \in 1..Len(emitted.commands) :
    /\ Turning(emitted.commands, i)
    /\ \A j \in (i + 1)..Len(emitted.commands) : ~Turning(emitted.commands, j)

\* C18: plan returns exactly one command per instruction, command k being
\* the TurnMove for instruction k (its distance), so the sequence is not
\* empty; the count and the correspondence survive the truncation and
\* replay of the end-heading correction.
C18_OneCommandPerInstruction ==
  /\ Emitted => Len(emitted.commands) = Len(tokens)
  /\ FixDone =>
       /\ Len(commands) = Len(tokens)
       /\ Len(commands) >= 1
       /\ \A k \in 1..Len(commands) :
            /\ commands[k].command_type = TurnMove
            /\ Abs(commands[k].ticks) = ForwardTicks(k)

\* the correction truncated the list before its end and replayed the rest
C18_Witness ==
  /\ planres = "ok"
  /\ CorrectionFired
  /\ PatchedIndex < Len(tokens)

\* ---- C19 --------------------------------------------------------------
\* heading of the replay before it handles instruction k > PatchedIndex
ReplayHeading(k) ==
  LastTarget + Dang(target_angle(tokens[PatchedIndex]), LastTarget)
  + SumTurns(commands, k - 1) - SumTurns(commands, PatchedIndex)

\* C19: when the correction fires it patches only the last command i with a
\* non-zero turn: the commands before i stay as emitted, command i gets the
\* patched turn and has only ticks and offset recomputed, every command
\* after i is plan_token's result from the corrected heading on, and no
\* other turn is patched.
C19_PatchAndReplay ==
  CorrectionFired =>
    LET i == PatchedIndex
        e == emitted.commands
    IN /\ \A k \in 1..(i - 1) :
            /\ commands[k].turn = e[k].turn
            /\ commands[k].ticks = e[k].ticks
            /\ pc = "budget" => commands[k] = e[k]
       /\ commands[i].turn - (e[i].turn + LastTarget - emitted.angle)
            \in {0, 2 * PI, -2 * PI}
       /\ commands[i].command_type = e[i].command_type
       /\ commands[i].ticks =
            plan_token(tokens[i], LastTarget, default_config).cmd.ticks
       /\ pc = "budget" => commands[i].tw_off = 0
       /\ \A k \in (i + 1)..Len(tokens) :
            LET c == plan_token(tokens[k], ReplayHeading(k), default_config).cmd
            IN /\ commands[k].turn = c.turn
               /\ commands[k].ticks = c.ticks

\* the correction fired with turns before the patched command and replayed
\* commands after it
C19_Witness ==
  /\ CorrectionFired
  /\ pc = "budget"
  /\ PatchedIndex < Len(tokens)
  /\ \E k \in 1..(PatchedIndex - 1) : Turning(emitted.commands, k)
  /\ commands[Len(commands)].ticks # emitted.commands[Len(commands)].ticks

\* ---- C20 --------------------------------------------------------------
\* unit vector of a heading that is a multiple of PI/2
DirVec(a) ==
  CASE Mod2Pi(a) = 0 -> <<1, 0>>
    [] Mod2Pi(a) = PI \div 2 -> <<0, 1>>
    [] Mod2Pi(a) = PI -> <<-1, 0>>
    [] Mod2Pi(a) = 3 * (PI \div 2) -> <<0, -1>>
    [] OTHER -> <<0, 0>>

\* the robot's heading after the turn of command k, starting out facing the
\* first instruction's direction
RobotHeading(k) == target_angle(tokens[1]) + SumTurns(commands, k)

\* the displacement of leg k, in ticks
Leg(k) ==
  <<commands[k].ticks * DirVec(RobotHeading(k))[1],
    commands[k].ticks * DirVec(RobotHeading(k))[2]>>

RECURSIVE SumLegs(_)
SumLegs(k) ==
  IF k = 0 THEN <<0, 0>>
  ELSE <<SumLegs(k - 1)[1] + Leg(k)[1], SumLegs(k - 1)[2] + Leg(k)[2]>>

\* C20: executing the final plan (heading += turn, then travel the signed
\* ticks along the heading) moves the robot on leg k in the direction of
\* instruction k by its magnitude, so it ends at the vector sum xfin, yfin.
C20_ExecutionFollowsScript ==
  planres = "ok" =>
    /\ \A k \in 1..Len(commands) :
         Leg(k) = <<ForwardTicks(k) * DirVec(target_angle(tokens[k]))[1],
                    ForwardTicks(k) * DirVec(target_angle(tokens[k]))[2]>>
    /\ LET fin == FinalPosition(tokens, Len(tokens))
           scale == default_config.ticks_per_cm * CM_PER_SQUARE
       IN SumLegs(Len(commands)) = <<fin.xfin * scale, fin.yfin * scale>>

====
